---- MODULE Spec2Model ----
(***************************************************************************)
(* State-machine model of src/functions.js (threejs-tinkerspace): the      *)
(* scene helpers setBackground, setResponsive, renderText, renderShape,    *)
(* renderBox and renderGltfModel, the shared animationList, and the        *)
(* browser events and loader completions that run the callbacks these      *)
(* functions register.                                                     *)
(*                                                                         *)
(* JavaScript values are records [t |-> <typeof / class>, v |-> <integer>] *)
(* so that the code's typeof and instanceof tests are tests on t.          *)
(* Execution is single-threaded: every call and every callback is one      *)
(* atomic action.                                                          *)
(***************************************************************************)
EXTENDS Integers, Sequences, FiniteSets, TLC

VARIABLES
  sceneBg,        \* scene.background of every scene
  sceneEnv,       \* scene.environment of every scene
  sceneKids,      \* scene.children of every scene (object references, in order)
  discarded,      \* scenes the caller no longer uses
  animationList,  \* the exported registry: sequence of [element, animate]
  loads,          \* asynchronous loads started so far, by call number
  promises,       \* the promise returned by each renderText / renderGltfModel call
  schemeListeners,\* "change" listeners on matchMedia("(prefers-color-scheme: dark)")
  prefersDark,    \* matchMedia("(prefers-color-scheme: dark)").matches
  win,            \* window.innerWidth, innerHeight, devicePixelRatio
  canvas,         \* the canvas element: style size and backing size
  renderer,       \* the WebGLRenderer: pixel ratio, size, whether it draws into canvas
  camera,         \* camera.aspect and the aspect of its projection matrix
  resizeListeners,\* "resize" listeners on window
  orientListeners,\* "change" listeners on screen.orientation
  handlerLog,     \* steps of the resize handler that ran last, in order
  errors,         \* number of console.error diagnostics so far
  calls,          \* number of calls of the module's functions so far
  budget,         \* number of calls explored
  last            \* the last call or callback: its options and what it produced

vars == <<sceneBg, sceneEnv, sceneKids, discarded, animationList, loads, promises,
          schemeListeners, prefersDark, win, canvas, renderer, camera,
          resizeListeners, orientListeners, handlerLog, errors, calls, budget, last>>

sceneVars == <<sceneBg, sceneEnv, sceneKids>>
respVars == <<win, canvas, renderer, camera, resizeListeners, orientListeners, handlerLog>>

----------------------------------------------------------------------------
(* Bounds *)

MaxCalls == 2
MaxFnCalls == 1
MaxSeqCalls == 3
MaxSize == 3
MaxTextures == 3
MaxClips == 2

----------------------------------------------------------------------------
(* JavaScript values *)

Undef == [t |-> "undefined", v |-> 0]
Num(n) == [t |-> "number", v |-> n]
Str(n) == [t |-> "string", v |-> n]
Fn(n) == [t |-> "function", v |-> n]
Bool(b) == [t |-> "boolean", v |-> IF b THEN 1 ELSE 0]
SceneRef(s) == [t |-> "Scene", v |-> s]

Scenes == {1, 2}

IsScene(x) == x.t = "Scene"
IsFunction(x) == x.t = "function"
IsNumber(x) == x.t = "number"
IsUndefined(x) == x.t = "undefined"

\* A destructuring default: the default replaces an option that is undefined.
Default(x, d) == IF IsUndefined(x) THEN d ELSE x

NoBackground == [kind |-> "none", v |-> 0]
Color(c) == [kind |-> "color", v |-> c.v]
Texture(kind, url) == [kind |-> kind, v |-> url.v]

DefaultBackgroundColor == 6710886

IsPrefix(s, t) == Len(s) <= Len(t) /\ SubSeq(t, 1, Len(s)) = s

----------------------------------------------------------------------------
(* setBackground *)

BackgroundScenes == {SceneRef(s) : s \in Scenes} \cup {Undef}

BackgroundOptions ==
  [color : {Undef, Num(1)},
   dark : {Undef, Num(2)},
   light : {Undef, Num(3)},
   image : {Undef, Str(4)},
   hdr : {Undef, Str(5)},
   exr : {Undef, Str(6)},
   scene : BackgroundScenes]

\* A plausible slip: the hdr and exr branches tested in the other order.
BackgroundSourceExrFirst(o) ==
  IF ~IsUndefined(o.dark) /\ ~IsUndefined(o.light) THEN "darklight"
  ELSE IF ~IsUndefined(o.image) THEN "image"
  ELSE IF ~IsUndefined(o.exr) THEN "exr"
  ELSE IF ~IsUndefined(o.hdr) THEN "hdr"
  ELSE "color"

\* The if / else-if chain of setBackground: the branch taken.
BackgroundSource(o) ==
  IF ~IsUndefined(o.dark) /\ ~IsUndefined(o.light) THEN "darklight"
  ELSE IF ~IsUndefined(o.image) THEN "image"
  ELSE IF ~IsUndefined(o.hdr) THEN "hdr"
  ELSE IF ~IsUndefined(o.exr) THEN "exr"
  ELSE "color"

SchemeColor(matches, dark, light) == IF matches THEN Color(dark) ELSE Color(light)

\* A started load and what its completion callback closes over.
NewLoad(kind, url, o) == [kind |-> kind, url |-> url, status |-> "pending", opts |-> o]

SetBackground(o) ==
  /\ calls < budget
  /\ calls' = calls + 1
  /\ LET c == calls + 1
         color == Default(o.color, Num(DefaultBackgroundColor))
         src == BackgroundSource(o)
     IN IF IsScene(o.scene)
        THEN /\ sceneBg' =
                  IF src = "darklight"
                  THEN [sceneBg EXCEPT ![o.scene.v] = SchemeColor(prefersDark, o.dark, o.light)]
                  ELSE IF src = "color"
                  THEN [sceneBg EXCEPT ![o.scene.v] = Color(color)]
                  ELSE sceneBg
             /\ schemeListeners' =
                  IF src = "darklight"
                  THEN Append(schemeListeners,
                              [scene |-> o.scene.v, dark |-> o.dark, light |-> o.light])
                  ELSE schemeListeners
             /\ loads' =
                  IF src \in {"image", "hdr", "exr"}
                  THEN loads @@ (c :> NewLoad(src, o[src], [scene |-> o.scene]))
                  ELSE loads
             /\ errors' = errors
             /\ last' = [fn |-> "setBackground", call |-> c, opts |-> o,
                         valid |-> TRUE, source |-> src]
        ELSE /\ errors' = errors + 1
             /\ last' = [fn |-> "setBackground", call |-> c, opts |-> o,
                         valid |-> FALSE, source |-> "none"]
             /\ UNCHANGED <<sceneBg, schemeListeners, loads>>
  /\ UNCHANGED <<sceneEnv, sceneKids, discarded, animationList, promises, prefersDark,
                 respVars, budget>>

\* The onLoad callback of the TextureLoader / RGBELoader / EXRLoader of setBackground.
BackgroundLoaded(c) ==
  /\ c \in DOMAIN loads
  /\ loads[c].status = "pending"
  /\ loads[c].kind \in {"image", "hdr", "exr"}
  /\ LET l == loads[c]
         s == l.opts.scene.v
         texture == Texture(l.kind, l.url)
     IN /\ sceneBg' = [sceneBg EXCEPT ![s] = texture]
        /\ sceneEnv' = IF l.kind = "image" THEN sceneEnv
                       ELSE [sceneEnv EXCEPT ![s] = texture]
        /\ loads' = [loads EXCEPT ![c].status = "done"]
        /\ last' = [fn |-> "backgroundLoaded", call |-> c]
  /\ UNCHANGED <<sceneKids, discarded, animationList, promises, schemeListeners,
                 prefersDark, respVars, errors, calls, budget>>

RECURSIVE RunSchemeListenersNewestFirst(_, _, _)
\* A plausible variant: the listeners run newest first, so the oldest one wins.
RunSchemeListenersNewestFirst(ls, m, bg) ==
  IF ls = <<>> THEN bg
  ELSE RunSchemeListenersNewestFirst(SubSeq(ls, 1, Len(ls) - 1), m,
         [bg EXCEPT ![ls[Len(ls)].scene] =
                      SchemeColor(m, ls[Len(ls)].dark, ls[Len(ls)].light)])

RECURSIVE RunSchemeListeners(_, _, _)
\* Every registered listener runs, in registration order, with event.matches = m.
RunSchemeListeners(ls, m, bg) ==
  IF ls = <<>> THEN bg
  ELSE RunSchemeListeners(Tail(ls), m,
         [bg EXCEPT ![Head(ls).scene] = SchemeColor(m, Head(ls).dark, Head(ls).light)])

\* The user agent's color scheme changes: a "change" event on the media query list.
ColorSchemeChange ==
  /\ prefersDark' = ~prefersDark
  /\ sceneBg' = RunSchemeListeners(schemeListeners, prefersDark', sceneBg)
  /\ last' = [fn |-> "colorSchemeChange", call |-> 0]
  /\ UNCHANGED <<sceneEnv, sceneKids, discarded, animationList, loads, promises,
                 schemeListeners, respVars, errors, calls, budget>>

----------------------------------------------------------------------------
(* setResponsive *)

CanvasRef == [t |-> "HTMLElement", v |-> 1]
RendererRef == [t |-> "WebGLRenderer", v |-> 1]
PerspectiveRef == [t |-> "PerspectiveCamera", v |-> 1]
OrthographicRef == [t |-> "OrthographicCamera", v |-> 1]

\* Fn(1) is the documented example callback shape (full width, height derived
\* from clientWidth); Fn(2) is a callback that leaves the style alone.
ResponsiveOptions ==
  [canvas : {CanvasRef, Undef},
   renderer : {RendererRef, Str(9)},
   camera : {PerspectiveRef, OrthographicRef, Undef},
   responsive : {Undef, Fn(1), Fn(2), Num(7)}]

DefaultResponsive == Fn(0)

ClientWidth(cv) == cv.styleW
ClientHeight(cv) == cv.styleH

\* The resize policy callback, applied to the canvas.
Responsive(f, cv, w) ==
  IF f = DefaultResponsive
  THEN [cv EXCEPT !.styleW = w.w, !.styleH = w.h]
  ELSE IF f = Fn(1)
  THEN [cv EXCEPT !.styleW = w.w, !.styleH = w.w]
  ELSE cv

\* WebGLRenderer.setSize(width, height, updateStyle): the renderer's own canvas
\* gets backing size floor(size * pixelRatio) and, with updateStyle, the style size.
RendererSetSize(h, width, height, updateStyle) ==
  [h EXCEPT
     !.renderer.w = width,
     !.renderer.h = height,
     !.canvas = IF h.renderer.own
                THEN [@ EXCEPT !.width = width * h.renderer.pixelRatio,
                               !.height = height * h.renderer.pixelRatio,
                               !.styleW = IF updateStyle THEN width ELSE @,
                               !.styleH = IF updateStyle THEN height ELSE @]
                ELSE @]

\* One statement of resizeChange, on h = [canvas, renderer, camera].
ResizeStep(step, f, h, w) ==
  CASE step = "responsive" -> [h EXCEPT !.canvas = Responsive(f, h.canvas, w)]
    [] step = "syncBacking" ->
         [h EXCEPT !.canvas.width = ClientWidth(h.canvas),
                   !.canvas.height = ClientHeight(h.canvas)]
    [] step = "setPixelRatio" ->
         RendererSetSize([h EXCEPT !.renderer.pixelRatio = w.dpr],
                         h.renderer.w, h.renderer.h, FALSE)
    [] step = "setSize" ->
         RendererSetSize(h, ClientWidth(h.canvas), ClientHeight(h.canvas), TRUE)
    [] step = "aspect" ->
         [h EXCEPT !.camera.aspect = <<ClientWidth(h.canvas), ClientHeight(h.canvas)>>]
    [] step = "updateProjectionMatrix" ->
         [h EXCEPT !.camera.proj = h.camera.aspect]

\* A plausible slip: the aspect is computed before the policy has run.
ResizeChangeStepsAspectFirst ==
  <<"aspect", "responsive", "syncBacking", "setPixelRatio", "setSize",
    "updateProjectionMatrix">>

\* The statements of resizeChange, in program order.
ResizeChangeSteps ==
  <<"responsive", "syncBacking", "setPixelRatio", "setSize", "aspect",
    "updateProjectionMatrix">>

RECURSIVE RunSteps(_, _, _, _)
RunSteps(steps, f, h, w) ==
  IF steps = <<>> THEN h
  ELSE RunSteps(Tail(steps), f, ResizeStep(Head(steps), f, h, w), w)

\* The closure resizeChange of one setResponsive call.
ResizeChange(f, h, w) == RunSteps(ResizeChangeSteps, f, h, w)

RECURSIVE RunResizeListeners(_, _, _)
RunResizeListeners(ls, h, w) ==
  IF ls = <<>> THEN h
  ELSE RunResizeListeners(Tail(ls), ResizeChange(Head(ls), h, w), w)

\* A plausible slip: the responsive callback is not type-checked.
ResponsiveValidNoCallbackCheck(o) ==
  /\ o.canvas.t = "HTMLElement"
  /\ o.renderer.t = "WebGLRenderer"
  /\ o.camera.t \in {"PerspectiveCamera", "OrthographicCamera"}

\* The condition of the if of setResponsive.
ResponsiveValid(o) ==
  /\ o.canvas.t = "HTMLElement"
  /\ o.renderer.t = "WebGLRenderer"
  /\ o.camera.t \in {"PerspectiveCamera", "OrthographicCamera"}
  /\ IsFunction(Default(o.responsive, DefaultResponsive))

SetResponsive(o) ==
  /\ calls < budget
  /\ calls' = calls + 1
  /\ LET f == Default(o.responsive, DefaultResponsive)
     IN IF ResponsiveValid(o)
        THEN /\ resizeListeners' = Append(resizeListeners, f)
             /\ orientListeners' = Append(orientListeners, f)
             /\ errors' = errors
        ELSE /\ errors' = errors + 1
             /\ UNCHANGED <<resizeListeners, orientListeners>>
  /\ last' = [fn |-> "setResponsive", call |-> calls + 1, opts |-> o,
              valid |-> ResponsiveValid(o)]
  /\ UNCHANGED <<sceneVars, discarded, animationList, loads, promises, schemeListeners,
                 prefersDark, win, canvas, renderer, camera, handlerLog, budget>>

WindowSizes == [w : 1..MaxSize, h : 1..MaxSize, dpr : {1, 2}]

Dispatch(ls, w, name) ==
  LET h == RunResizeListeners(ls, [canvas |-> canvas, renderer |-> renderer,
                                   camera |-> camera], w)
  IN /\ win' = w
     /\ canvas' = h.canvas
     /\ renderer' = h.renderer
     /\ camera' = h.camera
     /\ handlerLog' = IF ls = <<>> THEN <<>> ELSE ResizeChangeSteps
     /\ last' = [fn |-> name, call |-> 0, ran |-> Len(ls)]
     /\ UNCHANGED <<sceneVars, discarded, animationList, loads, promises,
                    schemeListeners, prefersDark, resizeListeners, orientListeners,
                    errors, calls, budget>>

\* The window is resized (or moved to a display of another pixel ratio): "resize".
WindowResize == \E w \in WindowSizes : w # win /\ Dispatch(resizeListeners, w, "resize")

\* The device is rotated: "change" on screen.orientation.
OrientationChange ==
  Dispatch(orientListeners, [win EXCEPT !.w = win.h, !.h = win.w], "orientationchange")

----------------------------------------------------------------------------
(* Objects, the registry and scene attachment *)

\* A reference to an object created for call number c.
Ref(c, kind) == [id |-> c, kind |-> kind]

\* A plausible slip: the entry is pushed whether or not animate is a function.
RegisterAlways(list, element, animate) ==
  Append(list, [element |-> element, animate |-> animate])

\* A plausible variant: the registry is kept in the order the calls were issued.
RegisterByCallOrder(list, element, animate) ==
  IF IsFunction(animate)
  THEN SelectSeq(list, LAMBDA x : x.element.id < element.id)
         \o <<[element |-> element, animate |-> animate]>>
         \o SelectSeq(list, LAMBDA x : x.element.id > element.id)
  ELSE list

\* A plausible slip: the new entry is put in front of the list (unshift).
RegisterInFront(list, element, animate) ==
  IF IsFunction(animate)
  THEN <<[element |-> element, animate |-> animate]>> \o list
  ELSE list

\* if (typeof animate === "function") animationList.push({ element, animate })
Register(list, element, animate) ==
  IF IsFunction(animate)
  THEN Append(list, [element |-> element, animate |-> animate])
  ELSE list

\* A plausible variant: a completion skips a scene its caller has discarded.
SceneAddUnlessDiscarded(kids, scene, object) ==
  IF IsScene(scene) /\ scene.v \notin discarded
  THEN [kids EXCEPT ![scene.v] = Append(@, object)]
  ELSE kids

\* if (scene instanceof THREE.Scene) scene.add(object)
SceneAdd(kids, scene, object) ==
  IF IsScene(scene)
  THEN [kids EXCEPT ![scene.v] = Append(@, object)]
  ELSE kids

SceneChoices == {SceneRef(1), Undef, Str(9)}
AnimateChoices == {Undef, Fn(8), Str(8)}

----------------------------------------------------------------------------
(* renderShape *)

\* innerRadius, phiSegments, thetaStart, thetaLength, widthSegments, heightSegments,
\* color, scale and position are passed through unchanged and held at their defaults.
ShapeOptions ==
  [radius : {Undef, Num(5), Str(5)},
   segments : {Undef, Num(3)},
   width : {Undef, Num(10)},
   height : {Undef, Num(4)},
   shape : {Undef, Fn(3), Str(3)},
   texture : {Undef, Str(7)},
   scene : SceneChoices,
   animate : AnimateChoices]

DefaultSegments == 128
DefaultCircleRadius == 10

\* A plausible slip: the plane is tested before the ring.
ShapeGeometryPlaneFirst(o) ==
  LET segments == Default(o.segments, Num(DefaultSegments)).v
  IN IF IsNumber(o.width) /\ IsNumber(o.height)
     THEN [type |-> "PlaneGeometry", a |-> o.width.v, b |-> o.height.v, segments |-> 1]
     ELSE IF IsNumber(o.radius)
     THEN [type |-> "RingGeometry", a |-> o.radius.v, b |-> 0, segments |-> segments]
     ELSE IF IsFunction(o.shape)
     THEN [type |-> "ShapeGeometry", a |-> o.shape.v, b |-> 0, segments |-> 0]
     ELSE [type |-> "CircleGeometry", a |-> DefaultCircleRadius, b |-> 0,
           segments |-> segments]

\* The geometry chain of renderShape. a, b: outer and inner radius of a ring,
\* width and height of a plane, the drawing callback of a procedural shape,
\* the radius of the circle.
ShapeGeometry(o) ==
  LET segments == Default(o.segments, Num(DefaultSegments)).v
  IN IF IsNumber(o.radius)
     THEN [type |-> "RingGeometry", a |-> o.radius.v, b |-> 0, segments |-> segments]
     ELSE IF IsNumber(o.width) /\ IsNumber(o.height)
     THEN [type |-> "PlaneGeometry", a |-> o.width.v, b |-> o.height.v, segments |-> 1]
     ELSE IF IsFunction(o.shape)
     THEN [type |-> "ShapeGeometry", a |-> o.shape.v, b |-> 0, segments |-> 0]
     ELSE [type |-> "CircleGeometry", a |-> DefaultCircleRadius, b |-> 0,
           segments |-> segments]

DefaultColor == 16777215

ShapeMaterial(o) ==
  IF o.texture.t = "string"
  THEN [type |-> "MeshBasicMaterial", map |-> o.texture.v, color |-> DefaultColor]
  ELSE [type |-> "MeshBasicMaterial", map |-> 0, color |-> DefaultColor]

RenderShape(o) ==
  /\ calls < budget
  /\ calls' = calls + 1
  /\ LET mesh == Ref(calls + 1, "Mesh")
     IN /\ animationList' = Register(animationList, mesh, o.animate)
        /\ sceneKids' = SceneAdd(sceneKids, o.scene, mesh)
        /\ last' = [fn |-> "renderShape", call |-> calls + 1, opts |-> o, ret |-> mesh,
                    geometry |-> ShapeGeometry(o), material |-> ShapeMaterial(o)]
  /\ UNCHANGED <<sceneBg, sceneEnv, discarded, loads, promises, schemeListeners,
                 prefersDark, respVars, errors, budget>>

----------------------------------------------------------------------------
(* renderBox *)

Arr(items) == [t |-> "array", v |-> Len(items), items |-> items]
NotArr(x) == [t |-> x.t, v |-> x.v, items |-> <<>>]

\* Texture lists ["1"], ["1", "2"], ... of every length up to MaxTextures, the
\* empty list, no list (the default []) and a string in place of the list.
TextureLists ==
  {Arr([i \in 1..n |-> i]) : n \in 0..MaxTextures} \cup {NotArr(Undef), NotArr(Str(7))}

\* Sizes, segment counts, color, scale and position are held at their defaults.
BoxOptions ==
  [isSolid : {Undef, Bool(TRUE), Bool(FALSE), Num(1)},
   textures : TextureLists,
   scene : SceneChoices,
   animate : AnimateChoices]

BoxFaces == 6

\* Array(6).fill(textures).flat(): the list repeated six times.
TextureToLoad(items) ==
  [k \in 1..(BoxFaces * Len(items)) |-> items[((k - 1) % Len(items)) + 1]]

\* The object renderBox builds: its class and its material(s).
Box(o) ==
  LET isSolid == Default(o.isSolid, Bool(TRUE))
      textures == IF IsUndefined(o.textures) THEN Arr(<<>>) ELSE o.textures
  IN IF isSolid = Bool(TRUE)
     THEN IF textures.t = "array" /\ Len(textures.items) > 0
          THEN [kind |-> "Mesh",
                materials |-> [k \in DOMAIN TextureToLoad(textures.items) |->
                                 [type |-> "MeshBasicMaterial",
                                  map |-> TextureToLoad(textures.items)[k]]]]
          ELSE [kind |-> "Mesh",
                materials |-> <<[type |-> "MeshPhongMaterial", map |-> 0]>>]
     ELSE [kind |-> "LineSegments",
           materials |-> <<[type |-> "LineBasicMaterial", map |-> 0]>>]

RenderBox(o) ==
  /\ calls < budget
  /\ calls' = calls + 1
  /\ LET b == Box(o)
         box == Ref(calls + 1, b.kind)
     IN /\ animationList' = Register(animationList, box, o.animate)
        /\ sceneKids' = SceneAdd(sceneKids, o.scene, box)
        /\ last' = [fn |-> "renderBox", call |-> calls + 1, opts |-> o, ret |-> box,
                    materials |-> b.materials]
  /\ UNCHANGED <<sceneBg, sceneEnv, discarded, loads, promises, schemeListeners,
                 prefersDark, respVars, errors, budget>>

----------------------------------------------------------------------------
(* Promises and loads *)

Pending == [state |-> "pending", value |-> Ref(0, "none")]
Resolved(x) == [state |-> "resolved", value |-> x]

IsPendingLoad(c, kinds) ==
  /\ c \in DOMAIN loads
  /\ loads[c].status = "pending"
  /\ loads[c].kind \in kinds

\* A load fails (network error, bad file). No function of the module passes an
\* onError callback, so nothing of the module runs.
LoadFailed(c) ==
  /\ IsPendingLoad(c, {"image", "hdr", "exr", "font", "gltf"})
  /\ loads' = [loads EXCEPT ![c].status = "failed"]
  /\ last' = [fn |-> "loadFailed", call |-> c]
  /\ UNCHANGED <<sceneVars, discarded, animationList, promises, schemeListeners,
                 prefersDark, respVars, errors, calls, budget>>

\* The caller drops its reference to a scene. Closures of pending loads keep theirs.
DiscardScene(s) ==
  /\ s \notin discarded
  /\ discarded' = discarded \cup {s}
  /\ last' = [fn |-> "discardScene", call |-> 0]
  /\ UNCHANGED <<sceneVars, animationList, loads, promises, schemeListeners,
                 prefersDark, respVars, errors, calls, budget>>

----------------------------------------------------------------------------
(* renderText *)

\* text, font, size, depth, the bevel options, color, scaleY, scaleZ, posY and posZ
\* are passed through unchanged and held at their defaults.
TextOptions ==
  [flat : {Undef, Bool(TRUE)},
   scaleX : {Undef, Num(2)},
   posX : {Undef, Num(3)},
   scene : SceneChoices,
   animate : AnimateChoices]

\* Bounding boxes (x extent) the geometry of a loaded font and text can have.
BoundingBoxes == {[min |-> a, max |-> b] : a \in 0..1, b \in 2..MaxSize}

\* posX as the callback computes it, doubled (so that -0.5 * width is an integer):
\* -0.5 * (boundingBox.max.x - boundingBox.min.x) unless posX was given.
TextPosX2(posX, box) ==
  IF IsUndefined(posX) THEN -(box.max - box.min) ELSE 2 * posX.v

RenderText(o) ==
  /\ calls < budget
  /\ calls' = calls + 1
  /\ loads' = loads @@ ((calls + 1) :> NewLoad("font", Str(0), o))
  /\ promises' = promises @@ ((calls + 1) :> Pending)
  /\ last' = [fn |-> "renderText", call |-> calls + 1, opts |-> o]
  /\ UNCHANGED <<sceneVars, discarded, animationList, schemeListeners, prefersDark,
                 respVars, errors, budget>>

\* The onLoad callback of the FontLoader of renderText, for a font whose text
\* geometry has bounding box `box`.
FontLoaded(c, box) ==
  /\ IsPendingLoad(c, {"font"})
  /\ LET o == loads[c].opts
         mesh == Ref(c, "Mesh")
         flat == Default(o.flat, Bool(FALSE)) = Bool(TRUE)
     IN /\ animationList' = Register(animationList, mesh, o.animate)
        /\ sceneKids' = SceneAdd(sceneKids, o.scene, mesh)
        /\ promises' = [promises EXCEPT ![c] = Resolved(mesh)]
        /\ last' = [fn |-> "fontLoaded", call |-> c, opts |-> o, ret |-> mesh,
                    geometry |-> IF flat THEN "ShapeGeometry" ELSE "TextGeometry",
                    materials |-> IF flat THEN 1 ELSE 2,
                    box |-> box,
                    scaleX |-> Default(o.scaleX, Num(1)).v,
                    x2 |-> TextPosX2(o.posX, box)]
  /\ loads' = [loads EXCEPT ![c].status = "done"]
  /\ UNCHANGED <<sceneBg, sceneEnv, discarded, schemeListeners, prefersDark,
                 respVars, errors, calls, budget>>

----------------------------------------------------------------------------
(* renderGltfModel *)

\* model, scale and position are passed through unchanged and held at their defaults.
GltfOptions == [scene : SceneChoices, animate : AnimateChoices]

\* The animations property of a loaded asset: an array of clips (clip 1, clip 2,
\* ...), possibly empty, or no such property.
AnimationLists == {Arr([i \in 1..n |-> i]) : n \in 0..MaxClips} \cup {NotArr(Undef)}

\* JavaScript truthiness of an object-valued property: every array, also the
\* empty one, is truthy; undefined is falsy.
Truthy(x) == ~IsUndefined(x)

NoMixer == [exists |-> FALSE, root |-> Ref(0, "none"), playing |-> {}]

\* loadedModel.mixer after the callback: an AnimationMixer on loadedModel.scene
\* with clipAction(clip).play() done for every clip, or no mixer.
GltfMixer(c, animate, animations) ==
  IF IsFunction(animate) /\ Truthy(animations)
  THEN [exists |-> TRUE, root |-> Ref(c, "Group"),
        playing |-> {animations.items[i] : i \in DOMAIN animations.items}]
  ELSE NoMixer

RenderGltfModel(o) ==
  /\ calls < budget
  /\ calls' = calls + 1
  /\ loads' = loads @@ ((calls + 1) :> NewLoad("gltf", Str(0), o))
  /\ promises' = promises @@ ((calls + 1) :> Pending)
  /\ last' = [fn |-> "renderGltfModel", call |-> calls + 1, opts |-> o]
  /\ UNCHANGED <<sceneVars, discarded, animationList, schemeListeners, prefersDark,
                 respVars, errors, budget>>

\* The onLoad callback of the GLTFLoader of renderGltfModel, for an asset whose
\* animations property is `animations`.
GltfLoaded(c, animations) ==
  /\ IsPendingLoad(c, {"gltf"})
  /\ LET o == loads[c].opts
         loadedModel == Ref(c, "GLTF")
     IN /\ animationList' = Register(animationList, loadedModel, o.animate)
        /\ sceneKids' = SceneAdd(sceneKids, o.scene, Ref(c, "Group"))
        /\ promises' = [promises EXCEPT ![c] = Resolved(loadedModel)]
        /\ last' = [fn |-> "gltfLoaded", call |-> c, opts |-> o, ret |-> loadedModel,
                    animations |-> animations,
                    mixer |-> GltfMixer(c, o.animate, animations)]
  /\ loads' = [loads EXCEPT ![c].status = "done"]
  /\ UNCHANGED <<sceneBg, sceneEnv, discarded, schemeListeners, prefersDark,
                 respVars, errors, calls, budget>>

----------------------------------------------------------------------------
(* Specifications *)

InitWith(b, owns) ==
  /\ sceneBg = [s \in Scenes |-> NoBackground]
  /\ sceneEnv = [s \in Scenes |-> NoBackground]
  /\ sceneKids = [s \in Scenes |-> <<>>]
  /\ discarded = {}
  /\ animationList = <<>>
  /\ loads = <<>>
  /\ promises = <<>>
  /\ schemeListeners = <<>>
  /\ prefersDark \in BOOLEAN
  /\ win = [w |-> 1, h |-> 1, dpr |-> 1]
  /\ canvas = [styleW |-> 1, styleH |-> 1, width |-> 1, height |-> 1]
  /\ renderer \in [pixelRatio : {1}, w : {1}, h : {1}, own : owns]
  /\ camera = [aspect |-> <<1, 1>>, proj |-> <<1, 1>>]
  /\ resizeListeners = <<>>
  /\ orientListeners = <<>>
  /\ handlerLog = <<>>
  /\ errors = 0
  /\ calls = 0
  /\ budget = b
  /\ last = [fn |-> "none", call |-> 0]

\* setBackground with every combination of its options, its loads and the
\* color-scheme events.
InitBackground == InitWith(MaxCalls, {TRUE})

NextBackground ==
  \/ \E o \in BackgroundOptions : SetBackground(o)
  \/ \E c \in DOMAIN loads : BackgroundLoaded(c)
  \/ \E c \in DOMAIN loads : LoadFailed(c)
  \/ ColorSchemeChange

SpecBackground == InitBackground /\ [][NextBackground]_vars

\* setResponsive and the window events.
InitResponsive == InitWith(MaxFnCalls, BOOLEAN)

NextResponsive ==
  \/ \E o \in ResponsiveOptions : SetResponsive(o)
  \/ WindowResize
  \/ OrientationChange

SpecResponsive == InitResponsive /\ [][NextResponsive]_vars

\* renderShape with every combination of its options.
InitShape == InitWith(MaxFnCalls, {TRUE})

NextShape == \E o \in ShapeOptions : RenderShape(o)

SpecShape == InitShape /\ [][NextShape]_vars

\* renderBox with every combination of its options.
InitBox == InitWith(MaxFnCalls, {TRUE})

NextBox == \E o \in BoxOptions : RenderBox(o)

SpecBox == InitBox /\ [][NextBox]_vars

\* renderText with every combination of its options, and its font loads.
InitText == InitWith(MaxFnCalls, {TRUE})

NextText ==
  \/ \E o \in TextOptions : RenderText(o)
  \/ \E c \in DOMAIN loads, box \in BoundingBoxes : FontLoaded(c, box)
  \/ \E c \in DOMAIN loads : LoadFailed(c)

SpecText == InitText /\ [][NextText]_vars

\* renderGltfModel with every combination of its options, and its model loads.
InitGltf == InitWith(MaxFnCalls, {TRUE})

NextGltf ==
  \/ \E o \in GltfOptions : RenderGltfModel(o)
  \/ \E c \in DOMAIN loads, a \in AnimationLists : GltfLoaded(c, a)
  \/ \E c \in DOMAIN loads : LoadFailed(c)

SpecGltf == InitGltf /\ [][NextGltf]_vars

\* Sequences of setBackground calls on two scenes (two different dark / light
\* pairs, an image, a solid color), their loads and the color-scheme events.
SchemeOptions ==
  {[color |-> v.color, dark |-> v.dark, light |-> v.light, image |-> v.image,
    hdr |-> Undef, exr |-> Undef, scene |-> SceneRef(s)] :
     s \in Scenes,
     v \in {[color |-> Undef, dark |-> Num(2), light |-> Num(3), image |-> Undef],
            [color |-> Undef, dark |-> Num(12), light |-> Num(13), image |-> Undef],
            [color |-> Undef, dark |-> Undef, light |-> Undef, image |-> Str(4)],
            [color |-> Num(1), dark |-> Undef, light |-> Undef, image |-> Undef]}}

InitScheme == InitWith(MaxSeqCalls, {TRUE})

NextScheme ==
  \/ \E o \in SchemeOptions : SetBackground(o)
  \/ \E c \in DOMAIN loads : BackgroundLoaded(c)
  \/ ColorSchemeChange

SpecScheme == InitScheme /\ [][NextScheme]_vars

\* Several loads in flight at once, interleaved with synchronous calls: the four
\* renderers with a callback or none, on scene 1, scene 2 or no scene.
ConcurrentPairs ==
  {[scene |-> SceneRef(1), animate |-> Fn(8)],
   [scene |-> SceneRef(2), animate |-> Fn(8)],
   [scene |-> SceneRef(1), animate |-> Undef],
   [scene |-> Undef, animate |-> Fn(8)]}

TextConcurrent ==
  {[flat |-> Undef, scaleX |-> Undef, posX |-> Undef,
    scene |-> p.scene, animate |-> p.animate] : p \in ConcurrentPairs}

GltfConcurrent == ConcurrentPairs

ShapeConcurrent ==
  {[radius |-> Undef, segments |-> Undef, width |-> Undef, height |-> Undef,
    shape |-> Undef, texture |-> Undef,
    scene |-> p.scene, animate |-> p.animate] :
     p \in {q \in ConcurrentPairs : q.scene # Undef}}

BoxConcurrent ==
  {[isSolid |-> Undef, textures |-> NotArr(Undef),
    scene |-> SceneRef(2), animate |-> Fn(8)]}

InitConcurrent == InitWith(MaxSeqCalls, {TRUE})

NextConcurrent ==
  \/ \E o \in TextConcurrent : RenderText(o)
  \/ \E o \in GltfConcurrent : RenderGltfModel(o)
  \/ \E o \in ShapeConcurrent : RenderShape(o)
  \/ \E o \in BoxConcurrent : RenderBox(o)
  \/ \E c \in DOMAIN loads : FontLoaded(c, [min |-> 0, max |-> 2])
  \/ \E c \in DOMAIN loads : GltfLoaded(c, Arr(<<1>>))

SpecConcurrent == InitConcurrent /\ [][NextConcurrent]_vars

\* Every function of the module, each with a representative subset of its
\* options (valid and wrong-typed), the load completions and failures, and the
\* caller discarding a scene.
BackgroundCore ==
  {o \in BackgroundOptions :
     /\ o.color = Undef /\ o.exr = Undef /\ o.hdr = Undef
     /\ o.scene \in {SceneRef(1), Undef}
     /\ IsUndefined(o.dark) = IsUndefined(o.light)
     /\ IsUndefined(o.dark) \/ IsUndefined(o.image)}

ResponsiveCore ==
  {o \in ResponsiveOptions :
     /\ o.camera = PerspectiveRef /\ o.renderer = RendererRef
     /\ o.responsive \in {Undef, Num(7)}
     /\ o.canvas = CanvasRef \/ o.responsive = Undef}

CommonCore(o) ==
  /\ o.scene \in {SceneRef(1), Str(9)}
  /\ o.animate \in {Fn(8), Undef} \/ (o.animate = Str(8) /\ o.scene = Str(9))

ShapeCore ==
  {o \in ShapeOptions :
     /\ CommonCore(o)
     /\ o.radius = (IF o.animate = Str(8) THEN Str(5) ELSE Undef)
     /\ o.segments = Undef /\ o.width = Undef
     /\ o.height = Undef /\ o.shape = Undef /\ o.texture = Undef}

BoxCore ==
  {o \in BoxOptions :
     /\ CommonCore(o)
     /\ o.isSolid = (IF o.animate = Str(8) THEN Num(1) ELSE Undef)
     /\ o.textures = (IF o.animate = Str(8) THEN NotArr(Str(7)) ELSE NotArr(Undef))}

TextCore ==
  {o \in TextOptions :
     CommonCore(o) /\ o.flat = Undef /\ o.scaleX = Undef /\ o.posX = Undef}

GltfCore == {o \in GltfOptions : CommonCore(o)}

Init == InitWith(MaxCalls, {TRUE})

Next ==
  \/ \E o \in BackgroundCore : SetBackground(o)
  \/ \E o \in ResponsiveCore : SetResponsive(o)
  \/ \E o \in ShapeCore : RenderShape(o)
  \/ \E o \in BoxCore : RenderBox(o)
  \/ \E o \in TextCore : RenderText(o)
  \/ \E o \in GltfCore : RenderGltfModel(o)
  \/ \E c \in DOMAIN loads : BackgroundLoaded(c)
  \/ \E c \in DOMAIN loads : FontLoaded(c, [min |-> 0, max |-> 1])
  \/ \E c \in DOMAIN loads : GltfLoaded(c, Arr(<<1>>))
  \/ \E c \in DOMAIN loads : LoadFailed(c)
  \/ DiscardScene(1)

Spec == Init /\ [][Next]_vars

----------------------------------------------------------------------------
(* Properties *)

\* A step that is a call of one of the functions named in fns.
CallOf(fns) == calls' = calls + 1 /\ last'.fn \in fns

\* A step that is the successful completion of a load of one of the kinds.
CompletionOf(fns) ==
  /\ last'.fn \in fns
  /\ last'.call \in DOMAIN loads
  /\ loads[last'.call].status = "pending"
  /\ loads'[last'.call].status = "done"

PriorityOrder == <<"darklight", "image", "hdr", "exr", "color">>

\* Whether a background source is given in the options: the dark/light pair only
\* when both are given, the solid color always (it has a default).
Present(o, src) ==
  CASE src = "darklight" -> ~IsUndefined(o.dark) /\ ~IsUndefined(o.light)
    [] src = "color" -> TRUE
    [] OTHER -> ~IsUndefined(o[src])

HighestPresent(o) ==
  PriorityOrder[CHOOSE i \in 1..Len(PriorityOrder) :
                  /\ Present(o, PriorityOrder[i])
                  /\ \A j \in 1..(i - 1) : ~Present(o, PriorityOrder[j])]

\* C1: a setBackground call on a valid scene applies exactly the highest-priority
\* source present in its options (dark+light pair > image > hdr > exr > color):
\* the pair sets the background by the current scheme and adds a listener, an
\* image / hdr / exr starts exactly that one load and sets nothing yet, and the
\* solid color (default 0x666666) is set only when no other source is present;
\* the load's completion sets the background to that texture.
C1_BackgroundPriority ==
  [][/\ (CallOf({"setBackground"}) /\ last'.valid) =>
          LET o == last'.opts
              s == o.scene.v
              c == last'.call
              src == HighestPresent(o)
          IN /\ last'.source = src
             /\ src = "darklight" =>
                  /\ sceneBg' = [sceneBg EXCEPT
                                   ![s] = Color(IF prefersDark THEN o.dark ELSE o.light)]
                  /\ Len(schemeListeners') = Len(schemeListeners) + 1
                  /\ loads' = loads
             /\ src = "color" =>
                  /\ sceneBg' = [sceneBg EXCEPT
                        ![s] = Color(Default(o.color, Num(DefaultBackgroundColor)))]
                  /\ \A k \in {"image", "hdr", "exr"} : IsUndefined(o[k])
                  /\ IsUndefined(o.dark) \/ IsUndefined(o.light)
                  /\ schemeListeners' = schemeListeners
                  /\ loads' = loads
             /\ src \in {"image", "hdr", "exr"} =>
                  /\ sceneBg' = sceneBg
                  /\ schemeListeners' = schemeListeners
                  /\ DOMAIN loads' = DOMAIN loads \cup {c}
                  /\ \A k \in DOMAIN loads : loads'[k] = loads[k]
                  /\ loads'[c].kind = src
                  /\ loads'[c].url = o[src]
                  /\ loads'[c].status = "pending"
     /\ CompletionOf({"backgroundLoaded"}) =>
          LET l == loads[last'.call]
          IN sceneBg' = [sceneBg EXCEPT ![l.opts.scene.v] = Texture(l.kind, l.url)]
    ]_vars

\* C1 witness: image, hdr, exr, a color and only one of dark / light were given
\* together, and the image load is the one that was started.
C1_Witness ==
  /\ last.fn = "setBackground"
  /\ last.valid
  /\ IsUndefined(last.opts.dark) /\ ~IsUndefined(last.opts.light)
  /\ ~IsUndefined(last.opts.image) /\ ~IsUndefined(last.opts.hdr)
  /\ ~IsUndefined(last.opts.exr) /\ ~IsUndefined(last.opts.color)
  /\ last.call \in DOMAIN loads
  /\ loads[last.call].kind = "image"
  /\ sceneBg[last.opts.scene.v] # Color(last.opts.color)

\* C2: when renderShape or renderBox returns, or a renderText or renderGltfModel
\* promise resolves, animationList has exactly one more entry (the returned /
\* resolved object with the supplied callback) if animate was a function, and is
\* unchanged otherwise.
C2_OneEntryPerCallback ==
  [][(\/ CallOf({"renderShape", "renderBox"})
      \/ CompletionOf({"fontLoaded", "gltfLoaded"})) =>
       /\ IF IsFunction(last'.opts.animate)
          THEN animationList' =
                 Append(animationList,
                        [element |-> last'.ret, animate |-> last'.opts.animate])
          ELSE animationList' = animationList
       /\ CompletionOf({"fontLoaded", "gltfLoaded"}) =>
            promises'[last'.call] = Resolved(last'.ret)
    ]_vars

\* C2 witness: a renderText promise resolved with a mesh that is the element of
\* the second entry of the registry.
C2_Witness ==
  /\ last.fn = "fontLoaded"
  /\ IsFunction(last.opts.animate)
  /\ Len(animationList) = 2
  /\ animationList[2] = [element |-> last.ret, animate |-> last.opts.animate]
  /\ promises[last.call] = Resolved(last.ret)

\* Whether a call was given an option of the wrong type (neither the documented
\* type nor left out).
WrongTyped(fn, o) ==
  CASE fn = "setBackground" -> ~IsScene(o.scene)
    [] fn = "setResponsive" -> ~ResponsiveValidNoCallbackCheck(o) \/ o.responsive.t = "number"
    [] fn = "renderShape" ->
         \/ o.scene.t = "string" \/ o.animate.t = "string" \/ o.radius.t = "string"
         \/ o.shape.t = "string"
    [] fn = "renderBox" ->
         \/ o.scene.t = "string" \/ o.animate.t = "string" \/ o.isSolid.t = "number"
         \/ o.textures.t = "string"
    [] fn \in {"renderText", "renderGltfModel"} ->
         o.scene.t = "string" \/ o.animate.t = "string"
    [] OTHER -> FALSE

PublicFunctions ==
  {"setBackground", "setResponsive", "renderText", "renderShape", "renderBox",
   "renderGltfModel"}

NothingMutated ==
  UNCHANGED <<sceneVars, animationList, loads, promises, schemeListeners,
              resizeListeners, orientListeners, canvas, renderer, camera>>

HandlerRan == last.fn \in {"resize", "orientationchange"} /\ last.ran >= 1

Before(log, a, b) ==
  \E i, j \in DOMAIN log : i < j /\ log[i] = a /\ log[j] = b

HandlerOrder ==
  /\ Before(handlerLog, "responsive", "syncBacking")
  /\ Before(handlerLog, "setSize", "aspect")

IsSolidBox(o) == Default(o.isSolid, Bool(TRUE)) = Bool(TRUE)

\* C5 as stated: a solid box with a texture list of length n >= 1 has exactly six
\* materials, face i (0..5) using texture i mod n; a solid box with an empty or
\* non-array list has exactly one color material.
C5_SixMaterials ==
  (last.fn = "renderBox" /\ IsSolidBox(last.opts)) =>
    LET t == last.opts.textures
        n == Len(t.items)
    IN IF t.t = "array" /\ n > 0
       THEN /\ last.ret.kind = "Mesh"
            /\ Len(last.materials) = BoxFaces
            /\ \A i \in 0..(BoxFaces - 1) :
                 last.materials[i + 1].map = t.items[(i % n) + 1]
       ELSE /\ last.ret.kind = "Mesh"
            /\ Len(last.materials) = 1
            /\ last.materials[1].type = "MeshPhongMaterial"

HasClips(a) == a.t = "array" /\ Len(a.items) > 0

\* C6 as stated: at completion of a renderGltfModel load the asset has a mixer if
\* and only if animate is a function and the asset carries animation clips; then
\* every clip is playing, the mixer is attached to the asset and the asset is the
\* registered element; without a callback nothing is played or attached.
C6_MixerIffCallbackAndClips ==
  last.fn = "gltfLoaded" =>
    /\ last.mixer.exists <=> (IsFunction(last.opts.animate) /\ HasClips(last.animations))
    /\ last.mixer.exists =>
         /\ last.mixer.playing = {last.animations.items[i] : i \in DOMAIN last.animations.items}
         /\ animationList[Len(animationList)] =
              [element |-> Ref(last.call, "GLTF"), animate |-> last.opts.animate]
    /\ ~IsFunction(last.opts.animate) => last.mixer = NoMixer

\* C7: renderShape picks its geometry by numeric radius > numeric width and
\* height together > function-valued shape > default: a ring of that outer radius
\* and the given segment count, else a plane of that size, else the procedural
\* shape, else a circle of radius 10.
C7_ShapePrecedence ==
  last.fn = "renderShape" =>
    LET o == last.opts
        g == last.geometry
    IN /\ IsNumber(o.radius) =>
            /\ g.type = "RingGeometry"
            /\ g.a = o.radius.v
            /\ g.segments = (IF IsUndefined(o.segments) THEN DefaultSegments ELSE o.segments.v)
       /\ (~IsNumber(o.radius) /\ IsNumber(o.width) /\ IsNumber(o.height)) =>
            g.type = "PlaneGeometry" /\ g.a = o.width.v /\ g.b = o.height.v
       /\ (~IsNumber(o.radius) /\ ~(IsNumber(o.width) /\ IsNumber(o.height))
             /\ IsFunction(o.shape)) =>
            g.type = "ShapeGeometry" /\ g.a = o.shape.v
       /\ (~IsNumber(o.radius) /\ ~(IsNumber(o.width) /\ IsNumber(o.height))
             /\ ~IsFunction(o.shape)) =>
            g.type = "CircleGeometry" /\ g.a = 10

\* C7 witness: radius, segments, width, height and a draw callback were all
\* given, and the result is the ring of radius 5 with 3 segments.
C7_Witness ==
  /\ last.fn = "renderShape"
  /\ last.opts.radius = Num(5) /\ last.opts.segments = Num(3)
  /\ last.opts.width = Num(10) /\ last.opts.height = Num(4)
  /\ last.opts.shape = Fn(3)
  /\ last.geometry = [type |-> "RingGeometry", a |-> 5, b |-> 0, segments |-> 3]

\* Twice the world x of the centre of the text: the mesh at position x scaled by
\* scaleX spans x + scaleX * min .. x + scaleX * max.
TextCentre2(x2, scaleX, box) == x2 + scaleX * (box.min + box.max)

\* C8 as stated: without posX the element's x is minus half the width of the
\* geometry's bounding box and the text is thereby centered at the origin, for
\* every geometry and scaleX; with posX the x is posX.
C8_CenteredAtOrigin ==
  last.fn = "fontLoaded" =>
    IF IsUndefined(last.opts.posX)
    THEN /\ last.x2 = -(last.box.max - last.box.min)
         /\ TextCentre2(last.x2, last.scaleX, last.box) = 0
    ELSE last.x2 = 2 * last.opts.posX.v

RegistryStep ==
  \/ CallOf(PublicFunctions)
  \/ CompletionOf({"backgroundLoaded", "fontLoaded", "gltfLoaded"})
  \/ last'.fn \in {"loadFailed", "discardScene"}

\* C9: in every step (call, load completion, load failure) the registry before
\* is a prefix of the registry after, and a setBackground or setResponsive call
\* and a background load's completion leave it unchanged.
C9_RegistryAppendOnly ==
  [][/\ RegistryStep => IsPrefix(animationList, animationList')
     /\ (\/ CallOf({"setBackground", "setResponsive"})
         \/ CompletionOf({"backgroundLoaded"})) => animationList' = animationList
    ]_vars

\* C9 witness: two entries, the later call's first: a renderText or
\* renderGltfModel load completed after a later call had registered its object.
C9_Witness ==
  /\ Len(animationList) = 2
  /\ animationList[1].element.id = 2
  /\ animationList[2].element.id = 1

HasEntry(c) == \E i \in DOMAIN animationList : animationList[i].element.id = c
HasChild(s, c) == \E i \in DOMAIN sceneKids[s] : sceneKids[s][i].id = c
HasChildAnywhere(c) == \E s \in Scenes : HasChild(s, c)

AsyncCalls == {c \in DOMAIN loads : loads[c].kind \in {"font", "gltf"}}

\* C10: for every renderText / renderGltfModel call, while its load is pending
\* or has failed the promise is pending, the registry has no entry for it and no
\* scene has its object; once the load has completed the promise is resolved,
\* the entry exists exactly if animate was a function and the object is in the
\* scene exactly if a scene was given, discarded or not; a failing load changes
\* neither registry, scenes nor promises, stays failed, and a completed one
\* stays completed.
C10_EffectsAtCompletionOnly ==
  [][\A c \in AsyncCalls :
       /\ loads'[c].status # "done" =>
            /\ promises'[c] = Pending
            /\ ~HasEntry(c)'
            /\ ~HasChildAnywhere(c)'
       /\ loads'[c].status = "done" =>
            /\ promises'[c].state = "resolved"
            /\ promises'[c].value.id = c
            /\ HasEntry(c)' <=> IsFunction(loads[c].opts.animate)
            /\ \A s \in Scenes : HasChild(s, c)' <=> loads[c].opts.scene = SceneRef(s)
       /\ loads[c].status = "failed" => loads'[c].status = "failed"
       /\ (loads[c].status = "pending" /\ loads'[c].status = "failed") =>
            UNCHANGED <<animationList, sceneVars, promises>>
       /\ loads[c].status = "done" => loads'[c].status = "done"
    ]_vars

\* C10 witness: a renderText load completed after the caller had discarded the
\* scene: the mesh is in the discarded scene, registered, and the promise resolved.
C10_Witness ==
  /\ last.fn = "fontLoaded"
  /\ 1 \in discarded
  /\ HasChild(1, last.call)
  /\ HasEntry(last.call)
  /\ promises[last.call] = Resolved(last.ret)

EntriesOf(list, c) == {i \in DOMAIN list : list[i].element.id = c}
ChildrenOf(kids, s, c) == {i \in DOMAIN kids[s] : kids[s][i].id = c}

\* C11: with several renderText / renderGltfModel loads in flight, interleaved
\* with renderShape / renderBox calls, and for every completion order: every call
\* has at most one registry entry; its object is in no scene while its load is
\* pending or failed and, once it has returned or completed, exactly once in the
\* scene it was given and in no other; a returning synchronous call and a
\* completing load put their entry behind all entries already there, and issuing
\* an asynchronous call changes neither the registry nor any scene, so that the
\* registry is in completion order (call order for synchronous calls), not in
\* the order the asynchronous calls were issued.
C11_CompletionOrder ==
  [][/\ \A c \in 1..calls' :
          /\ Cardinality(EntriesOf(animationList', c)) <= 1
          /\ \A s \in Scenes : Cardinality(ChildrenOf(sceneKids', s, c)) <= 1
          /\ Cardinality({s \in Scenes : ChildrenOf(sceneKids', s, c) # {}}) <= 1
     /\ \A c \in AsyncCalls :
          /\ loads'[c].status # "done" =>
               /\ EntriesOf(animationList', c) = {}
               /\ \A s \in Scenes : ChildrenOf(sceneKids', s, c) = {}
          /\ loads'[c].status = "done" =>
               \A s \in Scenes :
                 Cardinality(ChildrenOf(sceneKids', s, c)) =
                   (IF loads[c].opts.scene = SceneRef(s) THEN 1 ELSE 0)
     /\ (\/ CallOf({"renderShape", "renderBox"})
         \/ CompletionOf({"fontLoaded", "gltfLoaded"})) =>
          LET c == last'.call
              o == last'.opts
          IN /\ IsFunction(o.animate) =>
                  /\ Len(animationList') = Len(animationList) + 1
                  /\ SubSeq(animationList', 1, Len(animationList)) = animationList
                  /\ animationList'[Len(animationList')].element.id = c
             /\ \A s \in Scenes :
                  sceneKids'[s] =
                    IF o.scene = SceneRef(s)
                    THEN Append(sceneKids[s],
                                Ref(c, IF last'.fn = "gltfLoaded" THEN "Group"
                                       ELSE last'.ret.kind))
                    ELSE sceneKids[s]
     /\ CallOf({"renderText", "renderGltfModel"}) =>
          UNCHANGED <<animationList, sceneKids>>
    ]_vars

\* C11 witness: a renderText and a renderGltfModel load were in flight together,
\* a renderShape call made after both registered first, then the model load
\* completed, then the font load: the registry holds calls 3, 2, 1 in that
\* order and each object is once in its own scene.
C11_Witness ==
  /\ calls = 3
  /\ 1 \in DOMAIN loads /\ loads[1].kind = "font" /\ loads[1].status = "done"
  /\ 2 \in DOMAIN loads /\ loads[2].kind = "gltf" /\ loads[2].status = "done"
  /\ Len(animationList) = 3
  /\ animationList[1].element = Ref(3, "Mesh")
  /\ animationList[2].element = Ref(2, "GLTF")
  /\ animationList[3].element = Ref(1, "Mesh")
  /\ loads[1].opts.scene = SceneRef(2)
  /\ sceneKids[2] = <<Ref(1, "Mesh")>>
  /\ sceneKids[1] = <<Ref(3, "Mesh"), Ref(2, "Group")>>
  /\ last.fn = "fontLoaded"

ListenersOn(s) == {i \in DOMAIN schemeListeners : schemeListeners[i].scene = s}
Newest(idx) == CHOOSE i \in idx : \A j \in idx : j <= i

\* C12: a dark/light setBackground call adds one color-scheme listener and no
\* step ever removes, replaces or reorders one (k such calls leave k listeners);
\* at every color-scheme change event the background of each scene that has had
\* a dark/light call becomes the dark or light color (by the event's match) of
\* the most recent dark/light call on that scene, whatever a later setBackground
\* call with an image, hdr, exr or solid color had set, and a scene without such
\* a call keeps its background.
C12_ListenersPersist ==
  [][/\ IsPrefix(schemeListeners, schemeListeners')
     /\ IF CallOf({"setBackground"}) /\ last'.valid /\ last'.source = "darklight"
        THEN schemeListeners' =
               Append(schemeListeners,
                      [scene |-> last'.opts.scene.v, dark |-> last'.opts.dark,
                       light |-> last'.opts.light])
        ELSE schemeListeners' = schemeListeners
     /\ prefersDark' # prefersDark =>
          \A s \in Scenes :
            IF ListenersOn(s) = {}
            THEN sceneBg'[s] = sceneBg[s]
            ELSE LET l == schemeListeners[Newest(ListenersOn(s))]
                 IN sceneBg'[s] = Color(IF prefersDark' THEN l.dark ELSE l.light)
    ]_vars

\* C12 witness: two dark/light calls with different colors and then a solid
\* color call, all on scene 1, and then a color-scheme change: both listeners
\* are registered and the background is the second pair's color, not the solid
\* color and not the first pair's.
C12_Witness ==
  /\ last.fn = "colorSchemeChange"
  /\ calls = 3
  /\ Len(schemeListeners) = 2
  /\ schemeListeners[1] = [scene |-> 1, dark |-> Num(2), light |-> Num(3)]
  /\ schemeListeners[2] = [scene |-> 1, dark |-> Num(12), light |-> Num(13)]
  /\ DOMAIN loads = {}
  /\ sceneBg[2] = NoBackground
  /\ sceneBg[1] = Color(IF prefersDark THEN Num(12) ELSE Num(13))

====
